---- MODULE Spec2Model ----
(***************************************************************************)
(* IPsec overhead calculator (src/src/App.tsx): the validator              *)
(* validateForm, the packet composer calculatePacket, the grouping fold of *)
(* buildChartAndSummary, and the React form component App that drives them.*)
(***************************************************************************)
EXTENDS Integers, Sequences, FiniteSets, TLC

VARIABLES form, alert, packetDetails, built, shown, pc

vars == <<form, alert, packetDetails, built, shown, pc>>

(***************************************************************************)
(* Bounds of the model.                                                    *)
(***************************************************************************)
\* The packet sizes 26 .. 26 + SizeSpan are enumerated (both minimum sizes,
\* 28 and 48, and every residue of the block sizes 4, 8 and 16), together
\* with the fixed sizes of EdgeSizes.
SizeSpan == 23

(***************************************************************************)
(* Enumerations and constants of the program.                              *)
(***************************************************************************)
EspEncryption ==
    {"None", "ESP-DES/3DES", "ESP-AES-128/192/256", "ESP-GCM-128/192/256", "ESP-NULL"}

EspHmac ==
    {"None", "ESP-MD5-HMAC", "ESP-SHA-HMAC", "ESP-SHA-256", "ESP-SHA-384",
     "ESP-SHA-512", "ESP-GMAC-128/192/256"}

AhHmac == {"None", "AH-MD5-HMAC", "AH-SHA-HMAC"}

TunnelMode == {"Tunnel", "Transport"}

IPVersion == {"IPv4", "IPv6"}

espEncrItems ==
    <<"None", "ESP-DES/3DES", "ESP-AES-128/192/256", "ESP-GCM-128/192/256", "ESP-NULL">>

espHmacItems ==
    <<"None", "ESP-MD5-HMAC", "ESP-SHA-HMAC", "ESP-SHA-256", "ESP-SHA-256",
      "ESP-SHA-512", "ESP-GMAC-128/192/256">>

ahHmacItems == <<"None", "AH-MD5-HMAC", "AH-SHA-HMAC">>

tunnelModes == <<"Tunnel", "Transport">>

ipVersions == <<"IPv4", "IPv6">>

defaultFormValues ==
    [packetSize |-> 100,
     transform |-> [ahInte |-> "None",
                    espEncr |-> "ESP-AES-128/192/256",
                    espInte |-> "ESP-SHA-HMAC",
                    tunnelMode |-> "Tunnel"],
     transport |-> [ipProtocol |-> "IPv4", natTraver |-> FALSE],
     tunnelSetting |-> [gre |-> FALSE, greKey |-> FALSE]]

IPV4_HDR_SIZE == 20
IPV6_HDR_SIZE == 40

(***************************************************************************)
(* JavaScript numbers.  A number of the program is an integer or NaN (the  *)
(* result of parseInt on a text with no leading digits).  Arithmetic on    *)
(* NaN gives NaN and every ordering comparison with NaN is false.          *)
(***************************************************************************)
NaN == "NaN"

\* TLC compares values of one kind only, so the test goes through the
\* printed form of the value.
IsNaN(x) == ToString(x) = ToString(NaN)

JsAdd(a, b) == IF IsNaN(a) \/ IsNaN(b) THEN NaN ELSE a + b

JsSub(a, b) == IF IsNaN(a) \/ IsNaN(b) THEN NaN ELSE a - b

JsLt(a, b) == IF IsNaN(a) \/ IsNaN(b) THEN FALSE ELSE a < b

JsGt(a, b) == IF IsNaN(a) \/ IsNaN(b) THEN FALSE ELSE a > b

\* Math.ceil(a / b) * b for an integer a and a block size b that is a power
\* of two (the division is then exact in floating point).
CeilMul(a, b) == (-((-a) \div b)) * b

(***************************************************************************)
(* validateForm                                                            *)
(***************************************************************************)
HdrSize(ipProtocol) == IF ipProtocol = "IPv4" THEN IPV4_HDR_SIZE ELSE IPV6_HDR_SIZE

maxPacketSize == 64000

\* Mutation: the lower bound is exclusive.
packetSizeOutside_exclusiveMin(packetSize, minPacketSize) ==
    ~JsGt(packetSize, minPacketSize) \/ JsGt(packetSize, maxPacketSize)

\* packetSize < minPacketSize || packetSize > maxPacketSize
packetSizeOutside(packetSize, minPacketSize) ==
    JsLt(packetSize, minPacketSize) \/ JsGt(packetSize, maxPacketSize)

validateForm(f) ==
    LET packetSize == f.packetSize
        ipHeaderSize == HdrSize(f.transport.ipProtocol)
        minPacketSize == ipHeaderSize + 8
    IN  IF packetSizeOutside(packetSize, minPacketSize)
        THEN "Please enter a valid packet size between " \o ToString(minPacketSize)
                 \o " and " \o ToString(maxPacketSize)
        ELSE IF /\ f.transform.espEncr = "None"
                /\ f.transform.espInte = "None"
                /\ f.transform.ahInte = "None"
        THEN "Packet must use an encryption/authentication algorithm."
        ELSE IF /\ f.transform.espInte \notin {"None", "ESP-GMAC-128/192/256"}
                /\ f.transform.espEncr = "None"
        THEN "ESP integrity check can only be selected with an ESP encryption algorithm"
        ELSE IF /\ f.transform.espEncr = "ESP-GCM-128/192/256"
                /\ f.transform.espInte # "None"
        THEN "ESP-GCM provides both data confidentiality and integrity protection. Do not select a separate authentication algorithm."
        ELSE IF /\ f.transform.espEncr # "None"
                /\ f.transform.espInte = "ESP-GMAC-128/192/256"
        THEN "ESP-GMAC is an authentication-only algorithm and can not be selected with an encryption algorithm."
        ELSE IF /\ f.transform.ahInte # "None"
                /\ f.transform.espInte = "ESP-GMAC-128/192/256"
        THEN "AH algorithms can not be selected with ESP-GMAC."
        ELSE ""

(***************************************************************************)
(* calculatePacket                                                         *)
(***************************************************************************)
\* A PacketDetail without a group, and one with a group.
Detail(text, bytes) == [text |-> text, bytes |-> bytes]

GroupDetail(text, bytes, group) == [text |-> text, bytes |-> bytes, group |-> group]

\* The details one call of setInnerdata pushes.
setInnerdata(f) ==
    LET ipHeaderSize == HdrSize(f.transport.ipProtocol)
        ver == f.transport.ipProtocol
    IN  (IF f.tunnelSetting.gre
         THEN (IF f.transform.tunnelMode = "Tunnel"
               THEN <<Detail("New " \o ver \o " Header for GRE", ipHeaderSize)>>
               ELSE <<>>)
              \o (IF f.tunnelSetting.greKey
                  THEN <<Detail("GRE Header + Tunnel Key", 8)>>
                  ELSE <<Detail("GRE Header", 4)>>)
         ELSE <<>>)
        \o (IF f.tunnelSetting.gre \/ f.transform.tunnelMode = "Tunnel"
            THEN <<Detail("Original " \o ver \o " Header", ipHeaderSize)>>
            ELSE <<>>)
        \o <<Detail("Original " \o ver \o " Payload", JsSub(f.packetSize, ipHeaderSize))>>

\* Mutation: the length is rounded down to a block, not up.
getPadSize_floor(packetLength, blockSize) ==
    IF IsNaN(packetLength)
    THEN NaN
    ELSE ((packetLength + 2) \div blockSize) * blockSize - (packetLength + 2)

\* Mutation: the two trailer bytes are left out of the padded length.
getPadSize_noTrailer(packetLength, blockSize) ==
    IF IsNaN(packetLength)
    THEN NaN
    ELSE CeilMul(packetLength, blockSize) - packetLength

getPadSize(packetLength, blockSize) ==
    IF IsNaN(packetLength)
    THEN NaN
    ELSE CeilMul(packetLength + 2, blockSize) - (packetLength + 2)

\* The details pushed by "Determine IP headers" and the NAT-T step.
ipHeaders(f) ==
    LET ipHeaderSize == HdrSize(f.transport.ipProtocol)
        ver == f.transport.ipProtocol
    IN  (IF f.transform.tunnelMode = "Tunnel" \/ f.tunnelSetting.gre
         THEN <<Detail("New " \o ver \o " Header for IPsec", ipHeaderSize)>>
         ELSE <<Detail("Original " \o ver \o " Header", ipHeaderSize)>>)
        \o (IF f.transport.natTraver THEN <<Detail("UDP Header (NAT-T)", 8)>> ELSE <<>>)

\* Mutation: the second new IP header of Tunnel mode with GRE is not counted.
baseLength_oneHeader(f) ==
    IF f.transform.tunnelMode = "Tunnel" \/ f.tunnelSetting.gre
    THEN JsAdd(0, f.packetSize)
    ELSE JsSub(f.packetSize, HdrSize(f.transport.ipProtocol))

\* packetLength after "Determine IP headers".
baseLength(f) ==
    LET ipHeaderSize == HdrSize(f.transport.ipProtocol)
    IN  IF f.transform.tunnelMode = "Tunnel"
        THEN JsAdd(JsAdd(0, f.packetSize), IF f.tunnelSetting.gre THEN ipHeaderSize ELSE 0)
        ELSE IF f.tunnelSetting.gre
        THEN JsAdd(0, f.packetSize)
        ELSE JsSub(f.packetSize, ipHeaderSize)

\* Mutation: the tunnel key is counted whether or not GRE is enabled.
greLength_keyWithoutGre(f) ==
    (IF f.tunnelSetting.gre THEN 4 ELSE 0) + (IF f.tunnelSetting.greKey THEN 4 ELSE 0)

\* Mutation: the tunnel key is not counted.
greLength_noKey(f) == IF f.tunnelSetting.gre THEN 4 ELSE 0

\* What "Calculate padding from GRE" adds to packetLength.
greLength(f) ==
    IF f.tunnelSetting.gre
    THEN 4 + (IF f.tunnelSetting.greKey THEN 4 ELSE 0)
    ELSE 0

\* The value of the local packetLength when the ESP step reads it.
packetLengthOf(f) == JsAdd(baseLength(f), greLength(f))

\* Mutation: only the encryption is looked at.
noEsp_encrOnly(f) == f.transform.espEncr = "None"

\* "If there's no ESP, the inner data has to be added here."
noEsp(f) == f.transform.espEncr = "None" /\ f.transform.espInte = "None"

\* The details pushed by "Add Authentication Header".
ahDetails(f) ==
    IF f.transform.ahInte # "None"
    THEN <<GroupDetail("Next Header", 1, "AH Header"),
           GroupDetail("Payload", 1, "AH Header"),
           GroupDetail("Reserved", 2, "AH Header"),
           GroupDetail("SPI", 4, "AH Header"),
           GroupDetail("Sequence", 4, "AH Header")>>
         \o (IF f.transform.ahInte = "AH-MD5-HMAC" THEN <<Detail("AH Digest", 12)>> ELSE <<>>)
         \o (IF f.transform.ahInte = "AH-SHA-HMAC" THEN <<Detail("AH Digest", 12)>> ELSE <<>>)
         \o (IF noEsp(f) THEN setInnerdata(f) ELSE <<>>)
    ELSE <<>>

\* One arm of the espEncr switch, and the GMAC branch: an optional IV, the
\* inner data, the pad.
espBody(f, ivSize, blockSize) ==
    (IF ivSize > 0 THEN <<Detail("ESP IV", ivSize)>> ELSE <<>>)
    \o setInnerdata(f)
    \o <<GroupDetail("ESP Pad", getPadSize(packetLengthOf(f), blockSize), "ESP Trailer")>>

espEncrSwitch(f) ==
    CASE f.transform.espEncr = "ESP-DES/3DES" -> espBody(f, 8, 8)
      [] f.transform.espEncr = "ESP-AES-128/192/256" -> espBody(f, 16, 16)
      [] f.transform.espEncr = "ESP-GCM-128/192/256" -> espBody(f, 8, 4)
      [] f.transform.espEncr = "ESP-NULL" -> espBody(f, 0, 4)
      [] OTHER -> <<>>

\* Mutation: SHA-384 is given the ICV of SHA-256.
espIcvDetails_sha384As256(f) ==
    (IF \/ f.transform.espEncr = "ESP-GCM-128/192/256"
        \/ f.transform.espInte = "ESP-GMAC-128/192/256"
     THEN <<GroupDetail("ESP ICV", 16, "ESP Trailer")>>
     ELSE <<>>)
    \o (CASE f.transform.espInte \in {"ESP-MD5-HMAC", "ESP-SHA-HMAC"} ->
                 <<GroupDetail("ESP ICV", 12, "ESP Trailer")>>
          [] f.transform.espInte \in {"ESP-SHA-256", "ESP-SHA-384"} ->
                 <<GroupDetail("ESP ICV", 16, "ESP Trailer")>>
          [] f.transform.espInte = "ESP-SHA-512" ->
                 <<GroupDetail("ESP ICV", 32, "ESP Trailer")>>
          [] OTHER -> <<>>)

espIcvDetails(f) ==
    (IF \/ f.transform.espEncr = "ESP-GCM-128/192/256"
        \/ f.transform.espInte = "ESP-GMAC-128/192/256"
     THEN <<GroupDetail("ESP ICV", 16, "ESP Trailer")>>
     ELSE <<>>)
    \o (CASE f.transform.espInte \in {"ESP-MD5-HMAC", "ESP-SHA-HMAC"} ->
                 <<GroupDetail("ESP ICV", 12, "ESP Trailer")>>
          [] f.transform.espInte = "ESP-SHA-256" ->
                 <<GroupDetail("ESP ICV", 16, "ESP Trailer")>>
          [] f.transform.espInte = "ESP-SHA-384" ->
                 <<GroupDetail("ESP ICV", 24, "ESP Trailer")>>
          [] f.transform.espInte = "ESP-SHA-512" ->
                 <<GroupDetail("ESP ICV", 32, "ESP Trailer")>>
          [] OTHER -> <<>>)

\* The details pushed by "ESP Header, Inner Data, and ESP Trailer".
espDetails(f) ==
    IF f.transform.espEncr # "None" \/ f.transform.espInte = "ESP-GMAC-128/192/256"
    THEN <<GroupDetail("SPI", 4, "ESP Header"), GroupDetail("Sequence", 4, "ESP Header")>>
         \o espEncrSwitch(f)
         \o (IF f.transform.espInte = "ESP-GMAC-128/192/256"
             THEN espBody(f, 8, 4)
             ELSE <<>>)
         \o <<GroupDetail("Pad Length", 1, "ESP Trailer"),
              GroupDetail("Next Header", 1, "ESP Trailer")>>
         \o espIcvDetails(f)
    ELSE <<>>

calculatePacket(f) == ipHeaders(f) \o ahDetails(f) \o espDetails(f)

(***************************************************************************)
(* buildChartAndSummary: the fold of the details into boxes and the total. *)
(* Colours and pixel widths are left out.                                  *)
(***************************************************************************)
\* if (packetDetail.group): the group is present and not the empty string.
HasGroup(d) == "group" \in DOMAIN d /\ d.group # ""

\* boxes.findIndex(v => v.label === group), 1-based, 0 when there is none.
findIndex(boxes, group) ==
    IF \E i \in DOMAIN boxes : boxes[i].label = group
    THEN CHOOSE i \in DOMAIN boxes :
             /\ boxes[i].label = group
             /\ \A j \in 1..(i - 1) : boxes[j].label # group
    ELSE 0

\* Mutation: a detail merged into a box replaces the size of the box.
addToBoxes_overwrite(boxes, d) ==
    IF HasGroup(d)
    THEN LET index == findIndex(boxes, d.group)
         IN  IF index = 0
             THEN Append(boxes, [label |-> d.group, size |-> d.bytes,
                                 details |-> <<[text |-> d.text, bytes |-> d.bytes]>>])
             ELSE [boxes EXCEPT ![index].size = d.bytes,
                                ![index].details =
                                    Append(@, [text |-> d.text, bytes |-> d.bytes])]
    ELSE Append(boxes, [label |-> d.text, size |-> d.bytes, details |-> <<>>])

\* One iteration of the loop over packetDetails, on the boxes.
addToBoxes(boxes, d) ==
    IF HasGroup(d)
    THEN LET index == findIndex(boxes, d.group)
         IN  IF index = 0
             THEN Append(boxes, [label |-> d.group, size |-> d.bytes,
                                 details |-> <<[text |-> d.text, bytes |-> d.bytes]>>])
             ELSE [boxes EXCEPT ![index].size = JsAdd(@, d.bytes),
                                ![index].details =
                                    Append(@, [text |-> d.text, bytes |-> d.bytes])]
    ELSE Append(boxes, [label |-> d.text, size |-> d.bytes, details |-> <<>>])

RECURSIVE boxesOf(_)
boxesOf(details) ==
    IF details = <<>>
    THEN <<>>
    ELSE addToBoxes(boxesOf(SubSeq(details, 1, Len(details) - 1)), details[Len(details)])

RECURSIVE totalSizeOf(_)
totalSizeOf(details) ==
    IF details = <<>>
    THEN 0
    ELSE JsAdd(totalSizeOf(SubSeq(details, 1, Len(details) - 1)),
               details[Len(details)].bytes)

\* chart: the boxes drawn; summary: the rows of the table, the total row last.
buildChartAndSummary(details) ==
    [chart |-> boxesOf(details),
     summary |-> Append(boxesOf(details),
                        [label |-> "Total IPsec Packet Size",
                         size |-> totalSizeOf(details),
                         details |-> <<>>])]

\* The panel App renders below the form: the alert, or the packet details.
shownPanel(a) == IF a # "" THEN "alert" ELSE "details"

(***************************************************************************)
(* One evaluation of a configuration: the configuration is validated,      *)
(* composed and presented, in that order.                                  *)
(***************************************************************************)
EdgeSizes == {-1, 0, 19, 100, 63999, 64000, 64001}

PacketSizes == (26..(26 + SizeSpan)) \cup EdgeSizes

Configurations ==
    [packetSize : PacketSizes,
     transform : [ahInte : AhHmac, espEncr : EspEncryption, espInte : EspHmac,
                  tunnelMode : TunnelMode],
     transport : [ipProtocol : IPVersion, natTraver : BOOLEAN],
     tunnelSetting : [gre : BOOLEAN, greKey : BOOLEAN]]

Init ==
    /\ form \in Configurations
    /\ alert = ""
    /\ packetDetails = <<>>
    /\ built = buildChartAndSummary(<<>>)
    /\ shown = "details"
    /\ pc = "config"

Validate ==
    /\ pc = "config"
    /\ alert' = validateForm(form)
    /\ pc' = "validated"
    /\ UNCHANGED <<form, packetDetails, built, shown>>

Compose ==
    /\ pc = "validated"
    /\ packetDetails' = calculatePacket(form)
    /\ pc' = "composed"
    /\ UNCHANGED <<form, alert, built, shown>>

Present ==
    /\ pc = "composed"
    /\ built' = buildChartAndSummary(packetDetails)
    /\ shown' = shownPanel(alert)
    /\ pc' = "done"
    /\ UNCHANGED <<form, alert, packetDetails>>

Next == Validate \/ Compose \/ Present

Spec == Init /\ [][Next]_vars

(***************************************************************************)
(* The component App: its state is form, packetDetails and alert; every    *)
(* handler stores a new form and the component renders again; the effect   *)
(* on [form] then stores the alert and the details and it renders again.   *)
(***************************************************************************)
DigitChars == <<"0", "1", "2", "3", "4", "5", "6", "7", "8", "9">>

IsDigit(c) == \E i \in DOMAIN DigitChars : DigitChars[i] = c

DigitValue(c) == (CHOOSE i \in DOMAIN DigitChars : DigitChars[i] = c) - 1

\* The value of the longest prefix of digits of text, read after acc.
RECURSIVE digitsValue(_, _)
digitsValue(text, acc) ==
    IF text = <<>> \/ ~IsDigit(Head(text))
    THEN acc
    ELSE digitsValue(Tail(text), acc * 10 + DigitValue(Head(text)))

\* parseInt of a text given as its sequence of characters: an optional
\* sign, then the leading digits; NaN when there is no digit.
parseInt(text) ==
    LET signed == text # <<>> /\ Head(text) \in {"-", "+"}
        rest == IF signed THEN Tail(text) ELSE text
    IN  IF rest = <<>> \/ ~IsDigit(Head(rest))
        THEN NaN
        ELSE IF signed /\ Head(text) = "-"
        THEN 0 - digitsValue(rest, 0)
        ELSE digitsValue(rest, 0)

\* Values of the number input "Inner Packet Size" that the user leaves in it.
InputTexts == {<<>>, <<"2", "7">>, <<"4", "8", ".", "5">>}

FormInit ==
    /\ form = defaultFormValues
    /\ packetDetails = <<>>
    /\ alert = ""
    /\ built = buildChartAndSummary(<<>>)
    /\ shown = shownPanel("")
    /\ pc = "effect"

\* setForm(newValue) and the render that follows it: the effect is pending.
setForm(newValue) ==
    /\ pc = "idle"
    /\ form' = newValue
    /\ built' = buildChartAndSummary(packetDetails)
    /\ shown' = shownPanel(alert)
    /\ pc' = "effect"
    /\ UNCHANGED <<alert, packetDetails>>

ChangePacketSize ==
    \E text \in InputTexts : setForm([form EXCEPT !.packetSize = parseInt(text)])

ChangeAhInte ==
    \E i \in DOMAIN ahHmacItems :
        setForm([form EXCEPT !.transform.ahInte = ahHmacItems[i]])

ChangeEspEncr ==
    \E i \in DOMAIN espEncrItems :
        setForm([form EXCEPT !.transform.espEncr = espEncrItems[i]])

ChangeEspInte ==
    \E i \in DOMAIN espHmacItems :
        setForm([form EXCEPT !.transform.espInte = espHmacItems[i]])

ChangeTunnelMode ==
    \E i \in DOMAIN tunnelModes :
        setForm([form EXCEPT !.transform.tunnelMode = tunnelModes[i]])

ChangeIpProtocol ==
    \E i \in DOMAIN ipVersions :
        setForm([form EXCEPT !.transport.ipProtocol = ipVersions[i]])

ToggleNatTraver ==
    setForm([form EXCEPT !.transport.natTraver = ~form.transport.natTraver])

ToggleGre ==
    setForm([form EXCEPT !.tunnelSetting.gre = ~form.tunnelSetting.gre])

\* The switch is rendered only while GRE is enabled.
ToggleGreKey ==
    /\ form.tunnelSetting.gre
    /\ setForm([form EXCEPT !.tunnelSetting.greKey = ~form.tunnelSetting.greKey])

\* Mutation: the details are composed only for a valid form.
RunEffect_composeIfValid ==
    /\ pc = "effect"
    /\ alert' = validateForm(form)
    /\ packetDetails' = IF alert' = "" THEN calculatePacket(form) ELSE packetDetails
    /\ built' = buildChartAndSummary(packetDetails')
    /\ shown' = shownPanel(alert')
    /\ pc' = "idle"
    /\ UNCHANGED form

\* useEffect(..., [form]) and the render that follows its two updates.
RunEffect ==
    /\ pc = "effect"
    /\ alert' = validateForm(form)
    /\ packetDetails' = calculatePacket(form)
    /\ built' = buildChartAndSummary(packetDetails')
    /\ shown' = shownPanel(alert')
    /\ pc' = "idle"
    /\ UNCHANGED form

FormNext ==
    \/ ChangePacketSize
    \/ ChangeAhInte
    \/ ChangeEspEncr
    \/ ChangeEspInte
    \/ ChangeTunnelMode
    \/ ChangeIpProtocol
    \/ ToggleNatTraver
    \/ ToggleGre
    \/ ToggleGreKey
    \/ RunEffect

FormSpec == FormInit /\ [][FormNext]_vars

(***************************************************************************)
(* Properties.                                                             *)
(***************************************************************************)
Composed == pc \in {"composed", "done"}

Validated == pc \in {"validated", "composed", "done"}

RECURSIVE SumBytes(_)
SumBytes(details) ==
    IF details = <<>> THEN 0 ELSE details[1].bytes + SumBytes(Tail(details))

CountText(details, text) == Cardinality({i \in DOMAIN details : details[i].text = text})

\* The six rules of the validator, as the specification numbers them.
FailingRules(f) ==
    {n \in 1..6 :
        \/ n = 1 /\ \/ f.packetSize < (IF f.transport.ipProtocol = "IPv4" THEN 20 ELSE 40) + 8
                    \/ f.packetSize > 64000
        \/ n = 2 /\ f.transform.espEncr = "None" /\ f.transform.espInte = "None"
                  /\ f.transform.ahInte = "None"
        \/ n = 3 /\ f.transform.espInte # "None"
                  /\ f.transform.espInte # "ESP-GMAC-128/192/256"
                  /\ f.transform.espEncr = "None"
        \/ n = 4 /\ f.transform.espEncr = "ESP-GCM-128/192/256"
                  /\ f.transform.espInte # "None"
        \/ n = 5 /\ f.transform.espInte = "ESP-GMAC-128/192/256"
                  /\ f.transform.espEncr # "None"
        \/ n = 6 /\ f.transform.ahInte # "None"
                  /\ f.transform.espInte = "ESP-GMAC-128/192/256"}

RuleMessage(n, f) ==
    CASE n = 1 -> IF f.transport.ipProtocol = "IPv4"
                  THEN "Please enter a valid packet size between 28 and 64000"
                  ELSE "Please enter a valid packet size between 48 and 64000"
      [] n = 2 -> "Packet must use an encryption/authentication algorithm."
      [] n = 3 -> "ESP integrity check can only be selected with an ESP encryption algorithm"
      [] n = 4 -> "ESP-GCM provides both data confidentiality and integrity protection. Do not select a separate authentication algorithm."
      [] n = 5 -> "ESP-GMAC is an authentication-only algorithm and can not be selected with an encryption algorithm."
      [] n = 6 -> "AH algorithms can not be selected with ESP-GMAC."

FirstFailingRule(f) == CHOOSE n \in FailingRules(f) : \A m \in FailingRules(f) : n <= m

\* C1: once a configuration is validated, the alert is the message of the
\* lowest-numbered failing rule of the six, and it is the empty string
\* exactly when no rule fails; with IPv4 the size 27 is rejected and the
\* sizes 28 and 64000 are accepted.
C1_FirstFailingRuleWins ==
    Validated =>
        /\ FailingRules(form) = {} => alert = ""
        /\ FailingRules(form) # {} =>
               alert = RuleMessage(FirstFailingRule(form), form) /\ alert # ""
        /\ form.transport.ipProtocol = "IPv4" /\ form.packetSize = 27 =>
               alert = RuleMessage(1, form)
        /\ form.transport.ipProtocol = "IPv4" /\ form.packetSize \in {28, 64000} =>
               alert # RuleMessage(1, form)

\* C1 witness: the smallest IPv4 size was validated with a configuration that
\* breaks rules 4, 5 and 6 at once, and rule 4 was reported.
C1_Witness ==
    /\ pc = "validated"
    /\ form.transport.ipProtocol = "IPv4"
    /\ form.packetSize = 28
    /\ FailingRules(form) = {4, 5, 6}
    /\ alert = RuleMessage(4, form)

TextAndBytes(details) == [i \in DOMAIN details |-> <<details[i].text, details[i].bytes>>]

IsDefaultTransform(f) ==
    /\ f.packetSize = 100
    /\ f.transform = [ahInte |-> "None", espEncr |-> "ESP-AES-128/192/256",
                      espInte |-> "ESP-SHA-HMAC", tunnelMode |-> "Tunnel"]
    /\ f.transport = [ipProtocol |-> "IPv4", natTraver |-> FALSE]
    /\ ~f.tunnelSetting.gre

\* C2: for packetSize 100, AES, SHA-HMAC, no AH, Tunnel, IPv4, no NAT-T and
\* no GRE, the composed details are exactly the ten segments listed, in that
\* order, SPI and Sequence in group ESP Header, no AH segment, 168 bytes in all.
C2_DefaultLayout ==
    Composed /\ IsDefaultTransform(form) =>
        /\ TextAndBytes(packetDetails) =
               << <<"New IPv4 Header for IPsec", 20>>,
                  <<"SPI", 4>>,
                  <<"Sequence", 4>>,
                  <<"ESP IV", 16>>,
                  <<"Original IPv4 Header", 20>>,
                  <<"Original IPv4 Payload", 80>>,
                  <<"ESP Pad", 10>>,
                  <<"Pad Length", 1>>,
                  <<"Next Header", 1>>,
                  <<"ESP ICV", 12>> >>
        /\ packetDetails[2] = [text |-> "SPI", bytes |-> 4, group |-> "ESP Header"]
        /\ packetDetails[3] = [text |-> "Sequence", bytes |-> 4, group |-> "ESP Header"]
        /\ \A i \in DOMAIN packetDetails :
               /\ packetDetails[i].text # "AH Digest"
               /\ "group" \in DOMAIN packetDetails[i] => packetDetails[i].group # "AH Header"
        /\ SumBytes(packetDetails) = 168

\* C2 witness: the default form values have been composed.
C2_Witness ==
    /\ pc = "composed"
    /\ form = defaultFormValues
    /\ Len(packetDetails) = 10

AnyProtection(f) ==
    \/ f.transform.espEncr # "None"
    \/ f.transform.espInte # "None"
    \/ f.transform.ahInte # "None"

\* The number of calls of the inner-data helper that left their payload
\* segment in the details.
PayloadCount(details, f) ==
    CountText(details, "Original " \o f.transport.ipProtocol \o " Payload")

\* C3 as stated: whenever any protection is configured the composed details
\* hold exactly one 'Original <ver> Payload' segment.
C3_OncePerProtectedConfiguration ==
    Composed /\ AnyProtection(form) => PayloadCount(packetDetails, form) = 1

\* C3 amended: exactly one payload segment, pushed by the AH step or by the
\* ESP step and not by both, whenever any protection is configured and the
\* configuration breaks neither rule 3 nor rule 5 of the validator, so in
\* every configuration the validator accepts; none when rule 3 is broken,
\* two when rule 5 is.
C3_OncePerCoherentConfiguration ==
    Composed /\ AnyProtection(form) =>
        /\ FailingRules(form) \cap {3, 5} = {} =>
               /\ PayloadCount(packetDetails, form) = 1
               /\ PayloadCount(ahDetails(form), form)
                      + PayloadCount(espDetails(form), form) = 1
        /\ 3 \in FailingRules(form) => PayloadCount(packetDetails, form) = 0
        /\ 5 \in FailingRules(form) => PayloadCount(packetDetails, form) = 2
        /\ alert = "" /\ pc = "done" => PayloadCount(packetDetails, form) = 1

\* C3 witness: an accepted AH-only configuration was composed, its payload
\* pushed by the AH step.
C3_Witness ==
    /\ pc = "done"
    /\ alert = ""
    /\ form.transform.ahInte # "None"
    /\ form.transform.espEncr = "None"
    /\ PayloadCount(packetDetails, form) = 1
    /\ PayloadCount(ahDetails(form), form) = 1

RECURSIVE SumSizes(_)
SumSizes(boxes) == IF boxes = <<>> THEN 0 ELSE boxes[1].size + SumSizes(Tail(boxes))

\* C5: the size of the 'Total IPsec Packet Size' row is the sum of the bytes
\* of all composed details and the sum of the sizes of the merged boxes.
C5_TotalIsSum ==
    pc = "done" =>
        LET rows == built.summary
            total == rows[Len(rows)]
        IN  /\ total.label = "Total IPsec Packet Size"
            /\ total.size = SumBytes(packetDetails)
            /\ total.size = SumSizes(built.chart)
            /\ SubSeq(rows, 1, Len(rows) - 1) = built.chart

\* C5 witness: details of two groups were merged into fewer boxes.
C5_Witness ==
    /\ pc = "done"
    /\ \E i \in DOMAIN built.chart : built.chart[i].label = "AH Header"
    /\ \E i \in DOMAIN built.chart :
           built.chart[i].label = "ESP Trailer" /\ Len(built.chart[i].details) = 4
    /\ Len(built.chart) < Len(packetDetails)
    /\ built.summary[Len(built.summary)].size > form.packetSize

\* The padding of the specification, for a block size B.
PadFormula(L, B) == ((L + 2 + B - 1) \div B) * B - (L + 2)

\* C6: with GRE enabled, the details composed with and without the tunnel
\* key have the same length and agree position by position, except for the
\* GRE header (8 bytes with the key, 4 without) and for the size of an ESP
\* Pad, which is the padding of a base 4 bytes larger with the key.
C6_GreKeyDifference ==
    Composed /\ form.tunnelSetting.gre =>
        LET withKey == IF form.tunnelSetting.greKey
                       THEN packetDetails
                       ELSE calculatePacket([form EXCEPT !.tunnelSetting.greKey = TRUE])
            without == IF form.tunnelSetting.greKey
                       THEN calculatePacket([form EXCEPT !.tunnelSetting.greKey = FALSE])
                       ELSE packetDetails
            base == packetLengthOf([form EXCEPT !.tunnelSetting.greKey = FALSE])
        IN  /\ Len(withKey) = Len(without)
            /\ packetLengthOf([form EXCEPT !.tunnelSetting.greKey = TRUE]) = base + 4
            /\ CountText(withKey, "GRE Header + Tunnel Key") = PayloadCount(withKey, form)
            /\ CountText(without, "GRE Header") = PayloadCount(without, form)
            /\ \A i \in DOMAIN withKey :
                   \/ withKey[i] = without[i]
                   \/ /\ withKey[i] = [text |-> "GRE Header + Tunnel Key", bytes |-> 8]
                      /\ without[i] = [text |-> "GRE Header", bytes |-> 4]
                   \/ /\ withKey[i].text = "ESP Pad"
                      /\ without[i].text = "ESP Pad"
                      /\ withKey[i].group = without[i].group
                      /\ \E B \in {4, 8, 16} :
                             /\ withKey[i].bytes = PadFormula(base + 4, B)
                             /\ without[i].bytes = PadFormula(base, B)

\* C6 witness: a configuration with GRE and the key was composed whose ESP
\* Pad differs from the pad of the same configuration without the key.
C6_Witness ==
    /\ pc = "composed"
    /\ form.tunnelSetting.gre
    /\ form.tunnelSetting.greKey
    /\ \E i \in DOMAIN packetDetails :
           /\ packetDetails[i].text = "ESP Pad"
           /\ packetDetails[i].bytes #
                  calculatePacket([form EXCEPT !.tunnelSetting.greKey = FALSE])[i].bytes

BlockSize(espEncr) ==
    CASE espEncr = "ESP-DES/3DES" -> 8
      [] espEncr = "ESP-AES-128/192/256" -> 16
      [] espEncr = "ESP-GCM-128/192/256" -> 4
      [] espEncr = "ESP-NULL" -> 4

\* The running packetLength of steps 1-3 of the specification.
RunningLength(f) ==
    LET hdr == IF f.transport.ipProtocol = "IPv4" THEN 20 ELSE 40
    IN  (IF f.transform.tunnelMode = "Tunnel"
         THEN f.packetSize + (IF f.tunnelSetting.gre THEN hdr ELSE 0)
         ELSE IF f.tunnelSetting.gre THEN f.packetSize ELSE f.packetSize - hdr)
        + (IF f.tunnelSetting.gre THEN 4 ELSE 0)
        + (IF f.tunnelSetting.gre /\ f.tunnelSetting.greKey THEN 4 ELSE 0)

PadIndices(details) == {i \in DOMAIN details : details[i].text = "ESP Pad"}

\* p is the padding of length L to the block size B.
IsPadding(p, L, B) ==
    /\ p = PadFormula(L, B)
    /\ 0 <= p
    /\ p < B
    /\ (L + 2 + p) % B = 0

\* C7 as stated: with an encryption configured, an ESP Pad is composed and
\* every ESP Pad is the padding of the running length to the block size of
\* the encryption.
C7_EveryPadFitsEncryption ==
    Composed /\ form.transform.espEncr # "None" =>
        /\ PadIndices(packetDetails) # {}
        /\ \A i \in PadIndices(packetDetails) :
               IsPadding(packetDetails[i].bytes, RunningLength(form),
                         BlockSize(form.transform.espEncr))

\* C7 amended: with an encryption configured, the first ESP Pad composed (the
\* one of the encryption dispatch) is the padding of the running length to
\* the block size of the encryption; it is the only ESP Pad unless the
\* integrity is GMAC, and then one more ESP Pad follows, the padding of the
\* same length to 4 bytes.
C7_FirstPadFitsEncryption ==
    Composed /\ form.transform.espEncr # "None" =>
        LET pads == PadIndices(packetDetails)
            first == CHOOSE i \in pads : \A j \in pads : i <= j
        IN  /\ pads # {}
            /\ IsPadding(packetDetails[first].bytes, RunningLength(form),
                         BlockSize(form.transform.espEncr))
            /\ packetDetails[first].group = "ESP Trailer"
            /\ form.transform.espInte # "ESP-GMAC-128/192/256" => pads = {first}
            /\ form.transform.espInte = "ESP-GMAC-128/192/256" =>
                   /\ Cardinality(pads) = 2
                   /\ \A i \in pads \ {first} :
                          IsPadding(packetDetails[i].bytes, RunningLength(form), 4)

\* C7 witness: an AES configuration with NAT-T, GRE and the tunnel key was
\* composed with a pad of more than 8 bytes.
C7_Witness ==
    /\ pc = "composed"
    /\ form.transform.espEncr = "ESP-AES-128/192/256"
    /\ form.transport.natTraver
    /\ form.tunnelSetting.gre
    /\ form.tunnelSetting.greKey
    /\ \E i \in PadIndices(packetDetails) : packetDetails[i].bytes > 8

EspTriggered(f) ==
    f.transform.espEncr # "None" \/ f.transform.espInte = "ESP-GMAC-128/192/256"

\* The sizes of the ESP ICV segments of the specification, in order.
IcvSizes(f) ==
    (IF \/ f.transform.espEncr = "ESP-GCM-128/192/256"
        \/ f.transform.espInte = "ESP-GMAC-128/192/256"
     THEN <<16>>
     ELSE <<>>)
    \o (CASE f.transform.espInte = "ESP-MD5-HMAC" -> <<12>>
          [] f.transform.espInte = "ESP-SHA-HMAC" -> <<12>>
          [] f.transform.espInte = "ESP-SHA-256" -> <<16>>
          [] f.transform.espInte = "ESP-SHA-384" -> <<24>>
          [] f.transform.espInte = "ESP-SHA-512" -> <<32>>
          [] f.transform.espInte \in {"None", "ESP-GMAC-128/192/256"} -> <<>>)

\* C8: when ESP is triggered the details end with Pad Length, Next Header
\* and then the ESP ICV segments of the configuration (16 bytes for GCM or
\* GMAC, then the HMAC size), and these are all the ESP ICV segments; an
\* accepted configuration has at most one.
C8_IcvAfterTrailer ==
    pc = "done" /\ EspTriggered(form) =>
        LET sizes == IcvSizes(form)
            n == Len(packetDetails)
            k == Len(sizes)
        IN  /\ n >= k + 2
            /\ SubSeq(packetDetails, n - k - 1, n) =
                   <<[text |-> "Pad Length", bytes |-> 1, group |-> "ESP Trailer"],
                     [text |-> "Next Header", bytes |-> 1, group |-> "ESP Trailer"]>>
                   \o [i \in 1..k |->
                          [text |-> "ESP ICV", bytes |-> sizes[i], group |-> "ESP Trailer"]]
            /\ CountText(packetDetails, "ESP ICV") = k
            /\ alert = "" => CountText(packetDetails, "ESP ICV") <= 1

\* C8 witness: an accepted configuration with SHA-384 was composed and ends
\* with its 24-byte ICV.
C8_Witness ==
    /\ pc = "done"
    /\ alert = ""
    /\ form.transform.espInte = "ESP-SHA-384"
    /\ packetDetails[Len(packetDetails)] =
           [text |-> "ESP ICV", bytes |-> 24, group |-> "ESP Trailer"]

\* C10: the running packetLength is the sum of the bytes one call of the
\* inner-data helper pushes; so when exactly one ESP Pad is composed, the
\* inner data before it, the pad and the two trailer bytes fill whole blocks.
C10_PadBaseIsInnerData ==
    Composed =>
        LET inner == setInnerdata(form)
            pads == PadIndices(packetDetails)
        IN  /\ packetLengthOf(form) = SumBytes(inner)
            /\ Cardinality(pads) = 1 =>
                   LET k == CHOOSE i \in pads : TRUE
                       B == IF form.transform.espEncr = "None"
                            THEN 4
                            ELSE BlockSize(form.transform.espEncr)
                   IN  /\ k > Len(inner)
                       /\ SubSeq(packetDetails, k - Len(inner), k - 1) = inner
                       /\ (SumBytes(SubSeq(packetDetails, k - Len(inner), k - 1))
                              + packetDetails[k].bytes + 2) % B = 0

\* C10 witness: a Tunnel configuration with GRE and the key was composed with
\* one ESP Pad after the four inner-data segments.
C10_Witness ==
    /\ pc = "composed"
    /\ form.transform.tunnelMode = "Tunnel"
    /\ form.tunnelSetting.gre
    /\ form.tunnelSetting.greKey
    /\ form.transform.espEncr = "ESP-DES/3DES"
    /\ Cardinality(PadIndices(packetDetails)) = 1
    /\ Len(setInnerdata(form)) = 4
    /\ packetLengthOf(form) = form.packetSize + HdrSize(form.transport.ipProtocol) + 8

\* C9: once the effect has run for the current form, the alert is the
\* validation of that form and the details are its composition, non-empty
\* also for an invalid form; the packet details panel is shown exactly when
\* the alert is empty, and the alert panel otherwise.
C9_EffectSettlesForm ==
    /\ pc = "idle" =>
           /\ alert = validateForm(form)
           /\ packetDetails = calculatePacket(form)
           /\ packetDetails # <<>>
           /\ built = buildChartAndSummary(packetDetails)
    /\ shown = "details" <=> alert = ""
    /\ shown = "alert" <=> alert # ""

\* C9 witness: after edits the effect has run on a form the validator
\* rejects for a transform rule; the alert is shown and the details stored
\* are those of the same form.
C9_Witness ==
    /\ pc = "idle"
    /\ form.transform.ahInte # defaultFormValues.transform.ahInte
    /\ alert = "AH algorithms can not be selected with ESP-GMAC."
    /\ shown = "alert"
    /\ Len(packetDetails) > 0
    /\ packetDetails = calculatePacket(form)

\* The form with the GRE key switch in its other position.
OtherGreKey(f) == [f EXCEPT !.tunnelSetting.greKey = ~f.tunnelSetting.greKey]

\* C11: with GRE disabled, the alert, the composed details and the total
\* presented are those of the configuration that differs only in greKey.
C11_GreKeyIgnoredWithoutGre ==
    ~form.tunnelSetting.gre =>
        /\ Validated => alert = validateForm(OtherGreKey(form))
        /\ Composed => packetDetails = calculatePacket(OtherGreKey(form))
        /\ pc = "done" =>
               built.summary[Len(built.summary)].size
                   = SumBytes(calculatePacket(OtherGreKey(form)))

\* C11 witness: an accepted configuration with an ESP Pad was composed and
\* presented with GRE disabled and the key flag left on.
C11_Witness ==
    /\ pc = "done"
    /\ alert = ""
    /\ ~form.tunnelSetting.gre
    /\ form.tunnelSetting.greKey
    /\ PadIndices(packetDetails) # {}
    /\ packetDetails = calculatePacket(OtherGreKey(form))

\* The values the ESP integrity select offers.
OfferedEspIntegrity == {espHmacItems[i] : i \in DOMAIN espHmacItems}

\* C12: the options of the ESP integrity select are the values of EspHmac,
\* each offered exactly once, so that each of them, ESP-SHA-384 with its
\* 24-byte ICV among them, can be selected in the form.
C12_IntegrityOptionsAreTheEnum ==
    /\ OfferedEspIntegrity = EspHmac
    /\ \A v \in EspHmac :
           Cardinality({i \in DOMAIN espHmacItems : espHmacItems[i] = v}) = 1
    /\ form.transform.espInte \in EspHmac

\* What the form does instead: ESP-SHA-256 is offered twice and ESP-SHA-384
\* never, so no sequence of edits stores ESP-SHA-384 in the form and the
\* 24-byte ICV is never composed.
C12_Sha384NeverSelected ==
    /\ OfferedEspIntegrity = EspHmac \ {"ESP-SHA-384"}
    /\ Cardinality({i \in DOMAIN espHmacItems : espHmacItems[i] = "ESP-SHA-256"}) = 2
    /\ form.transform.espInte # "ESP-SHA-384"
    /\ \A i \in DOMAIN packetDetails :
           ~(packetDetails[i].text = "ESP ICV" /\ ToString(packetDetails[i].bytes) = "24")

====
